---- MODULE Spec2Model ----
(***************************************************************************)
(* Model of pybricksdev/run.py: the hub data receiver (line framing,       *)
(* status tracking, data-log capture, checksum mailbox) and the hub        *)
(* connection (chunked writes, checksum handshake, program download).      *)
(*                                                                         *)
(* Bytes are the integers 0..255, byte strings are sequences of bytes.     *)
(* One asyncio task runs the outbound operation; the transport's           *)
(* notification and disconnect callbacks run between its await points.     *)
(***************************************************************************)
EXTENDS Integers, Sequences, FiniteSets, TLC

\* ---------------------------------------------------------------- bounds
\* Largest number of notifications delivered in a dispatcher-only run.
MaxDeliveries == 3
\* Largest number of status lines the hub prints around send_message calls.
MaxText == 1
\* Largest number of status lines the hub prints around download_and_run.
MaxStatus == 2
\* Largest number of send_message calls made on one connection.
MaxCalls == 2
\* Largest number of disconnect calls made on one connection.
MaxCloses == 2

\* ----------------------------------------------------- program constants
UNKNOWN == 0
IDLE == 1
RUNNING == 2
ERROR == 3
CHECKING == 4

\* len(data) > 100 is refused by send_message; download_and_run cuts at 100.
MaxMessage == 100
\* write() cuts a message into transport chunks of 20 bytes.
WriteChunk == 20
\* wait_for_checksum polls range(50) times.
ChecksumPolls == 50

None == -1

CR == 13
LF == 10
CRLF == <<CR, LF>>

\* b'>>>> IDLE', b'>>>> RUNNING', b'>>>> ERROR'
IdleToken == <<62, 62, 62, 62, 32, 73, 68, 76, 69>>
RunningToken == <<62, 62, 62, 62, 32, 82, 85, 78, 78, 73, 78, 71>>
ErrorToken == <<62, 62, 62, 62, 32, 69, 82, 82, 79, 82>>
\* 'PB_OF' and 'PB_EOF'
OpenMarker == <<80, 66, 95, 79, 70>>
CloseMarker == <<80, 66, 95, 69, 79, 70>>

\* ---------------------------------------------------------- byte strings
Min(a, b) == IF a < b THEN a ELSE b

\* s[from:] of Python, with a 0-based offset.
Slice(s, from) == SubSeq(s, from + 1, Len(s))

\* bytes.index(pat): 0-based offset of the first occurrence, None if absent
\* (where Python raises ValueError).
Index(s, pat) ==
    LET hits == {p \in 0..(Len(s) - Len(pat)) :
                    SubSeq(s, p + 1, p + Len(pat)) = pat}
    IN IF hits = {} THEN None
       ELSE CHOOSE p \in hits : \A q \in hits : p <= q

\* 'pat' in text
Contains(s, pat) == Index(s, pat) /= None

\* Bit k of byte b.
Bit(b, k) == (b \div (2 ^ k)) % 2

\* checksum = 0; for b in data: checksum ^= b
\* Bit k of the fold is the parity of the number of bytes with bit k set.
XorFold(data) ==
    LET parity(k) == Cardinality({j \in DOMAIN data : Bit(data[j], k) = 1}) % 2
    IN  parity(0) + 2 * parity(1) + 4 * parity(2) + 8 * parity(3)
        + 16 * parity(4) + 32 * parity(5) + 64 * parity(6) + 128 * parity(7)

\* [data[i: i + n] for i in range(0, len(data), n)]
Chunks(data, n) ==
    [c \in 1..((Len(data) + n - 1) \div n) |->
        SubSeq(data, (c - 1) * n + 1, Min(c * n, Len(data)))]

\* len(mpy).to_bytes(4, byteorder='little')
ToBytes4(n) ==
    <<n % 256, (n \div 256) % 256, (n \div 65536) % 256,
      (n \div 16777216) % 256>>

\* bytes.decode() (UTF-8, strict) over one- and two-byte sequences: the code
\* points of the text, or None where Python raises UnicodeDecodeError.
RECURSIVE Utf8Valid(_)
Utf8Valid(line) ==
    IF line = <<>> THEN TRUE
    ELSE IF line[1] < 128 THEN Utf8Valid(Slice(line, 1))
    ELSE IF /\ line[1] >= 194 /\ line[1] <= 223 /\ Len(line) >= 2
            /\ line[2] >= 128 /\ line[2] <= 191
         THEN Utf8Valid(Slice(line, 2))
    ELSE FALSE

RECURSIVE Utf8Points(_)
Utf8Points(line) ==
    IF line = <<>> THEN <<>>
    ELSE IF line[1] < 128 THEN <<line[1]>> \o Utf8Points(Slice(line, 1))
    ELSE <<(line[1] - 192) * 64 + (line[2] - 128)>>
            \o Utf8Points(Slice(line, 2))

\* line.decode(), defined where Utf8Valid(line).
Decode(line) == Utf8Points(line)


\* ------------------------------------------------------------------ state
VARIABLES
    buf,        \* HubDataReceiver.buf: inbound bytes not yet cut into lines
    state,      \* HubDataReceiver.state
    reply,      \* HubDataReceiver.reply: checksum mailbox, None when empty
    log_file,   \* HubDataReceiver.log_file: None or a handle (index in files)
    files,      \* every file opened so far: name, writes received, closed flag
    printed,    \* texts handed to print() without a file (the output sink)
    events,     \* the "New State" records of update_state, oldest first
    lines,      \* the lines handed to process_line, oldest first
    exc,        \* exception that left the latest callback, "none" if it returned
    writes,     \* transport writes issued: message number and chunk bytes
    pc,         \* await point at which the outbound task is suspended
    op,         \* top-level operation the task runs
    mpy,        \* argument of download_and_run
    data,       \* argument of the send_message in progress
    msg,        \* number of the send_message in progress (1 = first)
    chunk,      \* write(): number of the transport chunk in progress
    polls,      \* wait_for_checksum(): polls of the reply slot made so far
    acked,      \* send_message calls that returned normally
    err,        \* exception that ended the top-level operation, "none" if none
    mark,       \* number of events when wait_until_not_running began
    stream,     \* all bytes delivered in line mode, in delivery order
    delivered,  \* notifications delivered so far
    texts,      \* status lines delivered around the operations
    heard,      \* notifications delivered since wait_for_checksum began
    calls,      \* top-level calls made so far
    echoed,     \* byte the hub answered message number msg with, None if none
    connected,  \* the transport is connected
    closes      \* disconnect calls made so far

vars ==
    <<buf, state, reply, log_file, files, printed, events, lines, exc, writes,
      pc, op, mpy, data, msg, chunk, polls, acked, err, mark, stream,
      delivered, texts, heard, calls, echoed, connected, closes>>

\* The whole state as one record, so that the methods are operators from
\* state to state.
Self ==
    [buf |-> buf, state |-> state, reply |-> reply, log_file |-> log_file,
     files |-> files, printed |-> printed, events |-> events, lines |-> lines,
     exc |-> exc, writes |-> writes, pc |-> pc, op |-> op, mpy |-> mpy,
     data |-> data, msg |-> msg, chunk |-> chunk, polls |-> polls,
     acked |-> acked, err |-> err, mark |-> mark, stream |-> stream,
     delivered |-> delivered, texts |-> texts, heard |-> heard,
     calls |-> calls, echoed |-> echoed,
     connected |-> connected, closes |-> closes]

Becomes(s) ==
    /\ buf' = s.buf /\ state' = s.state /\ reply' = s.reply
    /\ log_file' = s.log_file /\ files' = s.files /\ printed' = s.printed
    /\ events' = s.events /\ lines' = s.lines /\ exc' = s.exc
    /\ writes' = s.writes /\ pc' = s.pc /\ op' = s.op /\ mpy' = s.mpy
    /\ data' = s.data /\ msg' = s.msg /\ chunk' = s.chunk /\ polls' = s.polls
    /\ acked' = s.acked /\ err' = s.err /\ mark' = s.mark
    /\ stream' = s.stream /\ delivered' = s.delivered /\ texts' = s.texts
    /\ heard' = s.heard /\ calls' = s.calls
    /\ echoed' = s.echoed /\ connected' = s.connected /\ closes' = s.closes

\* ----------------------------------------------------- HubDataReceiver
\* ValueError and its subclasses, as "except ValueError" sees them.
IsValueError(e) == e \in {"ValueError", "UnicodeDecodeError"}

map_state(line) ==
    IF line = IdleToken THEN IDLE
    ELSE IF line = RunningToken THEN RUNNING
    ELSE IF line = ErrorToken THEN ERROR
    ELSE None

\* update_state recording every call.
update_state_always(s, new_state) ==
    [s EXCEPT !.events = Append(@, new_state), !.state = new_state]

update_state(s, new_state) ==
    IF new_state /= s.state
    THEN [s EXCEPT !.events = Append(@, new_state), !.state = new_state]
    ELSE s

\* open(name, 'w'): an empty name has no file to open.
open(s, name) ==
    IF name = <<>> THEN [s EXCEPT !.exc = "FileNotFoundError"]
    ELSE [s EXCEPT !.files = Append(@, [name |-> name, written |-> <<>>,
                                        closed |-> FALSE]),
                   !.log_file = Len(s.files) + 1]

\* process_line opening a log file without looking for one already open.
process_line_reopen(s0, line) ==
    LET s == [s0 EXCEPT !.lines = Append(@, line)]
        text == Decode(line)
    IN  IF ~Utf8Valid(line) THEN [s EXCEPT !.exc = "UnicodeDecodeError"]
        ELSE IF Contains(text, OpenMarker) THEN open(s, Slice(text, 6))
        ELSE IF Contains(text, CloseMarker) THEN
            IF s.log_file = None THEN [s EXCEPT !.exc = "OSError"]
            ELSE [s EXCEPT !.files[s.log_file].closed = TRUE,
                           !.log_file = None]
        ELSE IF s.log_file /= None THEN
            [s EXCEPT !.files[s.log_file].written = Append(@, text \o <<LF>>)]
        ELSE [s EXCEPT !.printed = Append(@, text)]

\* process_line printing a data-log line as well as saving it.
process_line_tee(s0, line) ==
    LET s == [s0 EXCEPT !.lines = Append(@, line)]
        text == Decode(line)
    IN  IF ~Utf8Valid(line) THEN [s EXCEPT !.exc = "UnicodeDecodeError"]
        ELSE IF Contains(text, OpenMarker) THEN
            IF s.log_file /= None THEN [s EXCEPT !.exc = "OSError"]
            ELSE open(s, Slice(text, 6))
        ELSE IF Contains(text, CloseMarker) THEN
            IF s.log_file = None THEN [s EXCEPT !.exc = "OSError"]
            ELSE [s EXCEPT !.files[s.log_file].closed = TRUE,
                           !.log_file = None]
        ELSE IF s.log_file /= None THEN
            [s EXCEPT !.files[s.log_file].written = Append(@, text \o <<LF>>),
                      !.printed = Append(@, text)]
        ELSE [s EXCEPT !.printed = Append(@, text)]

process_line(s0, line) ==
    LET s == [s0 EXCEPT !.lines = Append(@, line)]
        text == Decode(line)
    IN  IF ~Utf8Valid(line) THEN [s EXCEPT !.exc = "UnicodeDecodeError"]
        ELSE IF Contains(text, OpenMarker) THEN
            IF s.log_file /= None THEN [s EXCEPT !.exc = "OSError"]
            ELSE open(s, Slice(text, 6))
        ELSE IF Contains(text, CloseMarker) THEN
            IF s.log_file = None THEN [s EXCEPT !.exc = "OSError"]
            ELSE [s EXCEPT !.files[s.log_file].closed = TRUE,
                           !.log_file = None]
        ELSE IF s.log_file /= None THEN
            [s EXCEPT !.files[s.log_file].written = Append(@, text \o <<LF>>)]
        ELSE [s EXCEPT !.printed = Append(@, text)]

\* The "while True" loop of update_data_buffer: one iteration per line, left
\* by the ValueError of buf.index, by any other ValueError raised inside the
\* try block, or by an exception that is not a ValueError and propagates.
RECURSIVE split_lines(_)
split_lines(s) ==
    LET index == Index(s.buf, CRLF)
        line == SubSeq(s.buf, 1, index)
        s1 == [s EXCEPT !.buf = Slice(s.buf, index + 2)]
        s2 == IF map_state(line) /= None
              THEN update_state(s1, map_state(line)) ELSE s1
        s3 == process_line(s2, line)
    IN  IF index = None THEN s
        ELSE IF s3.exc = "none" THEN split_lines(s3)
        ELSE IF IsValueError(s3.exc) THEN [s3 EXCEPT !.exc = "none"]
        ELSE s3

\* update_data_buffer going on to the line buffer after storing the reply.
update_data_buffer_both(s0, fragment) ==
    LET s == [s0 EXCEPT !.exc = "none"]
    IN  IF s.state = CHECKING
        THEN split_lines([s EXCEPT !.reply = fragment[Len(fragment)],
                                   !.buf = @ \o fragment])
        ELSE split_lines([s EXCEPT !.buf = @ \o fragment])

update_data_buffer(s0, fragment) ==
    LET s == [s0 EXCEPT !.exc = "none"]
    IN  IF s.state = CHECKING
        THEN [s EXCEPT !.reply = fragment[Len(fragment)]]
        ELSE split_lines([s EXCEPT !.buf = @ \o fragment])

update_state_disconnected(s) == update_state(s, UNKNOWN)

\* ------------------------------------------------- PybricksHubConnection
TooLarge == "ValueError: Cannot send this much data at once"
NoReply == "OSError: Did not receive reply."
Mismatch == "ValueError: Did not receive expected checksum."
Timeout == "TimeoutError: Hub did not return checksum"
\* What the transport raises when used while it is not connected.
NotConnected == "BleakError: Not connected"

\* The top-level operation is over: the locals of its coroutines are gone.
return(s) == [s EXCEPT !.pc = "done", !.chunk = 0, !.polls = 0, !.heard = 0]

\* An exception leaves the top-level operation.
raise(s, e) == [return(s) EXCEPT !.pc = "raised", !.err = e]

\* wait_for_checksum up to its first await.
wait_for_checksum(s) ==
    [update_state(s, CHECKING) EXCEPT !.polls = 0, !.heard = 0,
                                      !.pc = "wait_for_checksum"]

\* send_message with its length check off by one chunk.
send_message_lax(s0, d) ==
    LET s == [s0 EXCEPT !.data = d, !.msg = @ + 1, !.chunk = 1,
                        !.polls = 0, !.heard = 0, !.echoed = None]
    IN  IF Len(d) > MaxMessage + WriteChunk THEN raise(s, TooLarge)
        ELSE IF Chunks(d, WriteChunk) = <<>> THEN wait_for_checksum(s)
        ELSE [s EXCEPT !.pc = "write_sleep"]

\* send_message up to its first await: the length check, then write() up to
\* the sleep before its first chunk, or wait_for_checksum when there is no
\* chunk to write.
send_message(s0, d) ==
    LET s == [s0 EXCEPT !.data = d, !.msg = @ + 1, !.chunk = 1,
                        !.polls = 0, !.heard = 0, !.echoed = None]
    IN  IF Len(d) > MaxMessage
        THEN raise(s, TooLarge)
        ELSE IF Chunks(d, WriteChunk) = <<>> THEN wait_for_checksum(s)
        ELSE [s EXCEPT !.pc = "write_sleep"]

\* write(): the pacing sleep is over, the chunk goes to write_gatt_char.
write(s) ==
    [s EXCEPT !.writes = Append(@, [msg |-> s.msg,
                                    bytes |-> Chunks(s.data, WriteChunk)[s.chunk]]),
              !.pc = "write_gatt_char"]

\* write(): write_gatt_char is over; the next chunk, or back in send_message.
write_next(s) ==
    IF s.chunk < Len(Chunks(s.data, WriteChunk))
    THEN [s EXCEPT !.chunk = @ + 1, !.pc = "write_sleep"]
    ELSE wait_for_checksum(s)

wait_until_not_running(s) == [s EXCEPT !.pc = "grace", !.mark = Len(s.events)]

\* download_and_run after a send_message returned: the next program chunk,
\* or the wait for the program to finish.
download_next(s) ==
    IF s.msg <= Len(Chunks(s.mpy, MaxMessage))
    THEN send_message(s, Chunks(s.mpy, MaxMessage)[s.msg])
    ELSE wait_until_not_running(s)

\* check_reply taking any reply for the checksum.
check_reply_any(s, r) ==
    IF r = None THEN raise(s, NoReply)
    ELSE IF s.op = "download_and_run"
    THEN download_next([s EXCEPT !.acked = @ + 1])
    ELSE return([s EXCEPT !.acked = @ + 1])

\* send_message from the reply of wait_for_checksum to its end, and on
\* into its caller.
check_reply(s, r) ==
    IF r = None THEN raise(s, NoReply)
    ELSE IF XorFold(s.data) /= r
    THEN raise(s, Mismatch)
    ELSE IF s.op = "download_and_run"
    THEN download_next([s EXCEPT !.acked = @ + 1])
    ELSE return([s EXCEPT !.acked = @ + 1])

\* One iteration of the loop of wait_for_checksum, after its sleep.
poll_reply(s0) ==
    LET s == [s0 EXCEPT !.polls = @ + 1]
    IN  IF s.reply /= None
        THEN check_reply(update_state([s EXCEPT !.reply = None], IDLE), s.reply)
        ELSE IF s.polls = ChecksumPolls
        THEN raise(s, Timeout)
        ELSE s

download_and_run(s) == send_message(s, ToBytes4(Len(s.mpy)))

\* disconnect up to its first await.
disconnect(s) == [s EXCEPT !.pc = "stop_notify", !.err = "none"]

\* disconnect: stop_notify is over, having raised or not.
disconnect_stopped(s, raises) ==
    IF raises THEN raise(s, NotConnected)
    ELSE [s EXCEPT !.pc = "client_disconnect"]

\* disconnect: client.disconnect is over, having raised or not; the
\* transport, if it was connected, has or has not called the disconnected
\* callback. disconnect itself assigns nothing.
disconnect_closed(s, raises, fired) ==
    LET s1 == IF fired THEN update_state_disconnected(s) ELSE s
    IN  IF raises THEN raise(s, NotConnected)
        ELSE [return(s1) EXCEPT !.pc = "closed", !.connected = FALSE]

\* poll_running leaving the loop at its first poll.
poll_running_once(s) == return(s)

\* poll_running leaving the loop when the status is RUNNING.
poll_running_if_running(s) == IF s.state = RUNNING THEN return(s) ELSE s

\* One iteration of the loop of wait_until_not_running, after its sleep.
poll_running(s) == IF s.state /= RUNNING THEN return(s) ELSE s

\* ------------------------------------------------------------ scenarios
\* n bytes that differ from their neighbours.
Bytes(n, seed) == [j \in 1..n |-> (7 * j + seed) % 256]

\* Arguments of send_message: empty, the largest message, and one that is
\* too large.
Payloads == {Bytes(n, 3) : n \in {0, 100, 101}}

\* Arguments of download_and_run: empty, one full chunk, and two full
\* chunks and a half.
Programs == {Bytes(n, 5) : n \in {0, 100, 250}}

\* Status lines the hub prints around an operation; it runs a program only
\* when one is downloaded.
StatusFragments == {RunningToken \o CRLF, IdleToken \o CRLF}
IdleFragments == {IdleToken \o CRLF}

\* Notifications of a hub that prints: text cut at arbitrary places, status
\* lines, data-log markers, and a line that is not UTF-8.
LineFragments ==
    { <<97, 98>>,                                    \* ab
      <<99, 13, 10, 100, 101, 102, 13, 10>>,         \* c CR LF def CR LF
      <<13>>, <<10>>,
      IdleToken \o CRLF,
      RunningToken \o CRLF,
      OpenMarker \o <<32, 120>> \o CRLF,             \* PB_OF x
      CloseMarker \o CRLF,
      <<255>> \o CRLF \o <<97, 98>> \o CRLF,         \* 0xFF, then ab
      OpenMarker \o <<32, 120>> \o CRLF \o ErrorToken \o CRLF }

InitReceiver ==
    /\ buf = <<>> /\ state = UNKNOWN /\ reply = None /\ log_file = None
    /\ files = <<>> /\ printed = <<>> /\ events = <<>> /\ lines = <<>>
    /\ exc = "none" /\ writes = <<>> /\ msg = 0 /\ chunk = 0 /\ polls = 0
    /\ acked = 0 /\ err = "none" /\ mark = 0 /\ stream = <<>>
    /\ delivered = 0 /\ texts = 0 /\ heard = 0 /\ calls = 0
    /\ echoed = None /\ connected = TRUE /\ data = <<>> /\ closes = 0

\* No outbound operation: the receiver alone.
InitDispatch == InitReceiver /\ op = "none" /\ pc = "idle" /\ mpy = <<>>

\* The caller uses send_message.
InitSend == InitReceiver /\ op = "send_message" /\ pc = "start" /\ mpy = <<>>

\* The caller uses download_and_run.
InitDownload ==
    InitReceiver /\ op = "download_and_run" /\ pc = "start" /\ mpy \in Programs

\* The caller uses wait_until_not_running.
InitRunWait ==
    InitReceiver /\ op = "wait_until_not_running" /\ pc = "start"
                 /\ mpy = <<>>

Init == InitDispatch \/ InitSend \/ InitDownload \/ InitRunWait

\* --------------------------------------------------------------- actions
\* Between two calls the task is not suspended inside the connection.
Returned == pc \in {"start", "done", "raised", "closed"}

\* The transport delivers notifications: connected, and stop_notify not yet
\* completed.
Subscribed == connected /\ pc /= "client_disconnect"

\* The transport calls update_data_buffer with one notification.
Deliver(s, fragment) ==
    Becomes([update_data_buffer(s, fragment) EXCEPT
                !.delivered = @ + 1,
                !.heard = IF s.pc = "wait_for_checksum" THEN @ + 1 ELSE @,
                !.stream = IF s.state = CHECKING THEN @ ELSE @ \o fragment])

\* The hub prints while no operation runs.
Notify(fragment) ==
    /\ op = "none" /\ connected /\ delivered < MaxDeliveries
    /\ Deliver(Self, fragment)

\* The hub prints a status line before, during or after an operation.
Status(fragment) ==
    /\ op /= "none" /\ Subscribed
    /\ texts < (IF op = "send_message" THEN MaxText ELSE MaxStatus)
    /\ op = "send_message" => fragment \in IdleFragments
    /\ Deliver([Self EXCEPT !.texts = @ + 1], fragment)

\* The hub has the whole message once its last transport write is issued;
\* its answer can be late, after the sender gave up and before the caller
\* sends again.
LastWriteIssued ==
    /\ data /= <<>>
    /\ \/ pc = "wait_for_checksum"
       \/ pc = "write_gatt_char" /\ chunk = Len(Chunks(data, WriteChunk))
       \/ pc = "raised" /\ err = Timeout /\ op = "send_message"

\* The hub answers the message with its checksum.
EchoChecksum ==
    /\ Subscribed /\ echoed = None /\ LastWriteIssued
    /\ Deliver([Self EXCEPT !.echoed = XorFold(data)], <<XorFold(data)>>)

\* The hub answers the message with another byte.
EchoWrong ==
    /\ Subscribed /\ echoed = None /\ LastWriteIssued
    /\ Deliver([Self EXCEPT !.echoed = (XorFold(data) + 1) % 256],
               <<(XorFold(data) + 1) % 256>>)

\* The transport calls the disconnected callback.
Disconnected ==
    /\ connected
    /\ Becomes([update_state_disconnected(Self) EXCEPT !.connected = FALSE])

\* The caller calls send_message, which runs to its first await.
CallSend(d) ==
    /\ op = "send_message" /\ Returned /\ calls < MaxCalls /\ closes = 0
    /\ Becomes(send_message([Self EXCEPT !.calls = @ + 1, !.err = "none"], d))

\* The caller calls download_and_run, which runs to its first await.
CallDownload ==
    /\ op = "download_and_run" /\ pc = "start"
    /\ Becomes(download_and_run([Self EXCEPT !.calls = @ + 1]))

\* The caller calls disconnect, which runs to its first await.
CallDisconnect ==
    /\ op = "send_message" /\ Returned /\ closes < MaxCloses
    /\ Becomes(disconnect([Self EXCEPT !.closes = @ + 1]))

\* stop_notify completes; on a transport that is not connected it may raise.
StopNotify ==
    /\ pc = "stop_notify"
    /\ \E raises \in BOOLEAN :
        /\ raises => ~connected
        /\ Becomes(disconnect_stopped(Self, raises))

\* client.disconnect completes; on a transport that is not connected it may
\* raise, and a transport that was connected may call the disconnected
\* callback as it closes.
ClientDisconnect ==
    /\ pc = "client_disconnect"
    /\ \E raises, fired \in BOOLEAN :
        /\ raises => ~connected
        /\ fired => (connected /\ ~raises)
        /\ Becomes(disconnect_closed(Self, raises, fired))

\* The caller calls wait_until_not_running, which runs to its first await.
CallWait ==
    /\ op = "wait_until_not_running" /\ pc = "start"
    /\ Becomes(wait_until_not_running([Self EXCEPT !.calls = @ + 1]))

WriteSleep == pc = "write_sleep" /\ Becomes(write(Self))

WriteGattChar == pc = "write_gatt_char" /\ Becomes(write_next(Self))

ChecksumPoll == pc = "wait_for_checksum" /\ Becomes(poll_reply(Self))

Grace == pc = "grace" /\ Becomes([Self EXCEPT !.pc = "run_sleep"])

RunPoll == pc = "run_sleep" /\ Becomes(poll_running(Self))

NextDispatch == (\E f \in LineFragments : Notify(f)) \/ Disconnected

Handshake ==
    \/ WriteSleep \/ WriteGattChar \/ ChecksumPoll
    \/ EchoChecksum \/ EchoWrong
    \/ \E f \in StatusFragments : Status(f)
    \/ Disconnected

Close == CallDisconnect \/ StopNotify \/ ClientDisconnect

NextSend == Handshake \/ Close \/ \E d \in Payloads : CallSend(d)

NextDownload == Handshake \/ CallDownload \/ Grace \/ RunPoll

NextRunWait ==
    \/ CallWait \/ Grace \/ RunPoll
    \/ \E f \in StatusFragments : Status(f)
    \/ Disconnected

Next ==
    \/ NextDownload
    \/ CallWait
    \/ \E d \in Payloads : CallSend(d)
    \/ Close
    \/ \E f \in LineFragments : Notify(f)

Spec == Init /\ [][Next]_vars
SpecDispatch == InitDispatch /\ [][NextDispatch]_vars
SpecSend == InitSend /\ [][NextSend]_vars
SpecDownload == InitDownload /\ [][NextDownload]_vars

\* The sleeps of wait_until_not_running end: the event loop resumes the
\* task after each of them.
SpecRunWait ==
    InitRunWait /\ [][NextRunWait]_vars /\ WF_vars(Grace) /\ WF_vars(RunPoll)

\* ---------------------------------------------------------- properties
\* The step in which the handshake of a send_message resolves.
Resolves == pc = "wait_for_checksum" /\ pc' \in {"done", "raised"}

\* A step of the loop of wait_for_checksum: one more poll of the reply slot.
Polls == pc = "wait_for_checksum" /\ <<pc, polls>>' /= <<pc, polls>>

\* C1: a message of 1..100 bytes that the hub answers with its XOR fold
\* succeeds and leaves the status IDLE, at whatever await point of
\* send_message the answer is delivered (first call on the connection,
\* nothing else delivered, no disconnect).
C1_EchoedMessageSucceeds ==
    [][(/\ Resolves /\ calls = 1 /\ texts = 0 /\ connected
        /\ Len(data) \in 1..MaxMessage /\ echoed = XorFold(data))
       => (pc' = "done" /\ state' = IDLE)]_vars

\* C2: a message of more than 100 bytes is refused with the too-large error
\* by the call itself, which issues no transport write and leaves state,
\* reply and buf as they were.
C2_TooLargeRefused ==
    [][(Returned /\ calls' = calls + 1 /\ Len(data') > MaxMessage)
       => (/\ pc' = "raised" /\ err' = TooLarge /\ writes' = writes
           /\ state' = state /\ reply' = reply /\ buf' = buf)]_vars

\* A too-large message was refused on a connection that had already carried
\* a message and a status line.
C2_Witness ==
    /\ pc = "raised" /\ err = TooLarge /\ Len(data) > MaxMessage
    /\ writes /= <<>> /\ buf = <<>> /\ stream /= <<>>

\* Every send_message called so far had bytes to write and wrote some.
EveryCallWrote == \A m \in 1..msg : \E j \in DOMAIN writes : writes[j].msg = m

\* C3: while no notification has been delivered since the wait for the
\* checksum began, each of the first 49 polls leaves send_message waiting
\* and the 50th ends it with the timeout error (messages of 1..100 bytes).
C3_TimeoutAfterFiftyPolls ==
    [][(Polls /\ heard = 0 /\ EveryCallWrote)
       => IF polls + 1 = ChecksumPolls
          THEN pc' = "raised" /\ err' = Timeout
          ELSE pc' = "wait_for_checksum" /\ polls' = polls + 1
               /\ err' = "none"]_vars

\* C4: when the handshake of a message of 1..100 bytes resolves, by success,
\* mismatch or timeout, the status is IDLE as send_message returns or raises.
C4_IdleWhenResolved ==
    [][(Resolves /\ Len(data) \in 1..MaxMessage) => state' = IDLE]_vars

\* The messages written so far, each put together from its transport writes.
RECURSIVE Flatten(_)
Flatten(ws) == IF ws = <<>> THEN <<>> ELSE ws[1].bytes \o Flatten(Tail(ws))

Written ==
    LET last == IF writes = <<>> THEN 0 ELSE writes[Len(writes)].msg
    IN  [m \in 1..last |-> Flatten(SelectSeq(writes, LAMBDA w : w.msg = m))]

\* The hub has been RUNNING since wait_until_not_running began.
RanSince == \E j \in (mark + 1)..Len(events) : events[j] = RUNNING

\* The step in which download_and_run returns.
DownloadReturns == op = "download_and_run" /\ pc /= "done" /\ pc' = "done"

\* C5: no transport write of a message is issued before the message before
\* it is acknowledged, and once the upload is over on a hub that answered
\* every message with its checksum (and printed nothing), the messages
\* written are the 4-byte little-endian length and then the 100-byte chunks
\* of the program, in order.
C5_UploadInOrder ==
    /\ \A j \in DOMAIN writes : writes[j].msg <= acked + 1
    /\ (/\ op = "download_and_run"
        /\ pc \in {"grace", "run_sleep", "done", "raised"}
        /\ pc = "raised" => (echoed = XorFold(data) /\ texts = 0 /\ connected))
       => Written = <<ToBytes4(Len(mpy))>> \o Chunks(mpy, MaxMessage)

\* C6 as stated: download_and_run returns only after the status has been
\* RUNNING since the last acknowledgement.
C6_ReturnsAfterRun == [][DownloadReturns => RanSince]_vars

\* C6 as amended: download_and_run returns only from a poll of
\* wait_until_not_running, after the grace sleep, that finds the status
\* other than RUNNING, all messages acknowledged.
C6_ReturnsAtPollNotRunning ==
    [][DownloadReturns
       => (/\ pc = "run_sleep" /\ state /= RUNNING
           /\ acked = Len(Chunks(mpy, MaxMessage)) + 1)]_vars

\* download_and_run returned after the program ran and ended.
C6_Witness ==
    /\ op = "download_and_run" /\ pc = "done" /\ RanSince /\ state = IDLE
    /\ Len(mpy) > MaxMessage

\* C7: a poll that finds a reply other than the checksum, or the 50th poll
\* that finds none, ends download_and_run with that error without a further
\* transport write, and after it nothing is written and no wait is entered.
C7_FailureAborts ==
    [][/\ (/\ Polls
           /\ \/ reply /= None /\ reply /= XorFold(data)
              \/ reply = None /\ polls + 1 = ChecksumPolls)
          => (/\ pc' = "raised" /\ writes' = writes
              /\ err' = IF reply = None THEN Timeout ELSE Mismatch)
       /\ pc = "raised"
          => (pc' = "raised" /\ err' = err /\ writes' = writes /\ msg' = msg)
      ]_vars

\* A program chunk that is not the last failed its checksum.
C7_Witness ==
    /\ op = "download_and_run" /\ pc = "raised" /\ err = Mismatch
    /\ msg >= 2 /\ msg <= Len(Chunks(mpy, MaxMessage))

\* The CR LF-terminated segments of a byte stream, in order.
RECURSIVE Segments(_)
Segments(bytes) ==
    LET cut == Index(bytes, CRLF)
    IN  IF cut = None THEN <<>>
        ELSE <<SubSeq(bytes, 1, cut)>> \o Segments(Slice(bytes, cut + 2))

\* C8: the lines handed to process_line are the CR LF-terminated segments of
\* the whole stream delivered in line mode, in order and once each, however
\* the stream was cut into notifications.
C8_LinesAreSegments == lines = Segments(stream)

\* The status changes a sequence of lines asks for, starting from status cur:
\* the tokens that differ from the status held when they arrive.
RECURSIVE Changes(_, _)
Changes(ls, cur) ==
    IF ls = <<>> THEN <<>>
    ELSE IF map_state(ls[1]) /= None /\ map_state(ls[1]) /= cur
    THEN <<map_state(ls[1])>> \o Changes(Tail(ls), map_state(ls[1]))
    ELSE Changes(Tail(ls), cur)

\* C9: the state-change events are exactly the status tokens that differed
\* from the status held when they arrived (followed, after a disconnect
\* from a status other than UNKNOWN, by the change to UNKNOWN).
C9_EventsAreChanges ==
    LET asked == Changes(lines, UNKNOWN)
        held == IF asked = <<>> THEN UNKNOWN ELSE asked[Len(asked)]
    IN  events = asked \o (IF ~connected /\ held /= UNKNOWN
                           THEN <<UNKNOWN>> ELSE <<>>)

\* The same token line arrived twice in a row and made one event.
C9_Witness ==
    /\ connected /\ Len(events) = 1
    /\ \E j \in 1..(Len(lines) - 1) :
        lines[j] = IdleToken /\ lines[j + 1] = IdleToken

OpenFiles == {j \in DOMAIN files : ~files[j].closed}

IsOpenLine(l) == Utf8Valid(l) /\ Contains(Decode(l), OpenMarker)

IsCloseLine(l) ==
    Utf8Valid(l) /\ ~IsOpenLine(l) /\ Contains(Decode(l), CloseMarker)

\* C10: at most one log file is open, and it is the one attached; a log-open
\* line that arrives while a file is open raises OSError and leaves that
\* file attached and open, and a log-close line that arrives while none is
\* open raises OSError and leaves none attached.
C10_OneLogSink ==
    /\ [](/\ Cardinality(OpenFiles) <= 1
          /\ OpenFiles = IF log_file = None THEN {} ELSE {log_file})
    /\ [][Len(lines') = Len(lines) + 1
          => /\ (IsOpenLine(lines'[Len(lines')]) /\ log_file /= None)
                => (/\ exc' = "OSError" /\ log_file' = log_file
                    /\ files' = files)
             /\ (IsCloseLine(lines'[Len(lines')]) /\ log_file = None)
                => (/\ exc' = "OSError" /\ log_file' = None
                    /\ files' = files)]_vars

\* A log-open line arrived while a log file was open.
C10_Witness ==
    /\ exc = "OSError" /\ log_file /= None /\ lines /= <<>>
    /\ IsOpenLine(lines[Len(lines)]) /\ Cardinality(OpenFiles) = 1

\* The line that opened the log file attached after the first j lines were
\* processed, 0 when none is attached.
RECURSIVE Sink(_)
Sink(j) ==
    IF j = 0 THEN 0
    ELSE IF IsOpenLine(lines[j]) /\ Sink(j - 1) = 0
              /\ Len(Decode(lines[j])) > 6 THEN j
    ELSE IF IsCloseLine(lines[j]) /\ Sink(j - 1) /= 0 THEN 0
    ELSE Sink(j - 1)

\* Line j is decodable text without a data-log marker.
IsDataLine(j) ==
    Utf8Valid(lines[j]) /\ ~IsOpenLine(lines[j]) /\ ~IsCloseLine(lines[j])

\* The texts of the data lines that arrived while the file opened by line j
\* was attached (j = 0: while none was attached), in order.
RECURSIVE DataUnder(_, _)
DataUnder(j, upto) ==
    IF upto = 0 THEN <<>>
    ELSE DataUnder(j, upto - 1)
            \o (IF IsDataLine(upto) /\ Sink(upto - 1) = j
                THEN <<Decode(lines[upto])>> ELSE <<>>)

\* The lines that opened a log file, in order.
Openers == SelectSeq([j \in DOMAIN lines |-> j], LAMBDA j : Sink(j) = j)

\* C11: every log-open line that arrives while no file is attached opens one
\* file; the file receives one write (the text and a newline) for each data
\* line that arrives before the next log-close line, in order, and nothing
\* else, and is closed by that line and only by it; the output receives the
\* data lines that arrive while no file is attached, and no others.
C11_LogReceivesDataLines ==
    /\ Len(files) = Len(Openers)
    /\ \A f \in DOMAIN files :
        /\ files[f].written =
              [k \in DOMAIN DataUnder(Openers[f], Len(lines)) |->
                  DataUnder(Openers[f], Len(lines))[k] \o <<LF>>]
        /\ files[f].closed <=>
              \E k \in (Openers[f] + 1)..Len(lines) :
                  Sink(k - 1) = Openers[f] /\ Sink(k) = 0
    /\ printed = DataUnder(0, Len(lines))

\* A log-open line, two data lines and a log-close line arrived: one file,
\* two writes, closed, nothing printed.
C11_Witness ==
    /\ Len(lines) = 4 /\ IsOpenLine(lines[1]) /\ IsCloseLine(lines[4])
    /\ IsDataLine(2) /\ IsDataLine(3)
    /\ Len(files) = 1 /\ files[1].closed /\ Len(files[1].written) = 2
    /\ printed = <<>>

\* The lines handed to process_line in this step.
NewLines == (Len(lines) + 1)..Len(lines')

\* C12: a notification that completes a line whose bytes are not valid
\* UTF-8 ends with the decode error leaving update_data_buffer.
C12_DecodeErrorSurfaced ==
    [][(\E j \in NewLines : ~Utf8Valid(lines'[j]))
       => exc' = "UnicodeDecodeError"]_vars

\* The step in which a disconnect call ends.
DisconnectEnds == pc \in {"stop_notify", "client_disconnect"}
                     /\ pc' \in {"closed", "raised"}

\* C13: every disconnect call, the first and those made when already
\* disconnected, returns without an error and with the status UNKNOWN.
C13_DisconnectLeavesUnknown ==
    [][DisconnectEnds => (pc' = "closed" /\ state' = UNKNOWN)]_vars

\* C14: a send_message call with an empty message is refused with the
\* too-large error by the call itself: no transport write, the status as it
\* was, no wait for a checksum.
C14_EmptyRefused ==
    [][(Returned /\ calls' = calls + 1 /\ data' = <<>>)
       => (/\ pc' = "raised" /\ err' = TooLarge /\ writes' = writes
           /\ state' = state)]_vars

\* The first transport write of the message in progress has been issued and
\* its handshake has not resolved.
WriteToResolution ==
    \/ pc \in {"write_gatt_char", "wait_for_checksum"}
    \/ pc = "write_sleep" /\ chunk > 1

\* C15: the status is CHECKING at every transport write, and a notification
\* delivered between the first write of a message and the resolution of its
\* handshake goes to the reply slot, not to buf or the line processor.
C15_CheckingBeforeFirstWrite ==
    [][/\ writes' /= writes => state' = CHECKING
       /\ (WriteToResolution /\ delivered' = delivered + 1)
          => (buf' = buf /\ lines' = lines /\ reply' /= None)]_vars

\* C16: the reply slot is empty when send_message is called, a poll that
\* finds a reply empties the slot, and a notification delivered while the
\* slot holds an unread reply does not replace it: the reply a send_message
\* reads is the first one stored since it was called.
C16_ReplyIsOwn ==
    [][/\ (Returned /\ calls' = calls + 1) => reply = None
       /\ (Polls /\ reply /= None) => reply' = None
       /\ (delivered' = delivered + 1 /\ reply /= None)
          => reply' = reply]_vars

\* C17: a notification delivered while the status is CHECKING stores its
\* last byte in the reply slot and changes nothing else of the receiver:
\* buf, the status and its events, the log file, the lines processed and
\* the output are as they were (a status line ends with LF; the hub's
\* answer is one byte).
C17_CheckingStoresLastByte ==
    [][(state = CHECKING /\ delivered' = delivered + 1)
       => (/\ reply' = IF texts' /= texts THEN LF ELSE echoed'
           /\ buf' = buf /\ state' = state /\ events' = events
           /\ log_file' = log_file /\ files' = files
           /\ lines' = lines /\ printed' = printed
           /\ exc' = "none")]_vars

\* A status line was delivered during the wait for the checksum: its last
\* byte is in the reply slot, and no line was cut or processed.
C17_Witness ==
    /\ pc = "wait_for_checksum" /\ state = CHECKING /\ texts = 1
    /\ reply = LF /\ buf = <<>> /\ lines = <<>> /\ Len(data) = MaxMessage

\* wait_until_not_running is suspended at one of its sleeps.
InRunWait == pc \in {"grace", "run_sleep"}

\* C18: wait_until_not_running returns only from a poll, after the grace
\* sleep, that finds the status other than RUNNING; a poll that finds it
\* RUNNING goes on to the next poll, however many there were; and if the
\* status is in the end never RUNNING again, the wait returns.
C18_RunWaitTerminates ==
    /\ [][(InRunWait /\ ~InRunWait')
          => (pc = "run_sleep" /\ state /= RUNNING /\ pc' = "done")]_vars
    /\ [][(pc = "run_sleep" /\ state = RUNNING) => pc' = "run_sleep"]_vars
    /\ (<>[](state /= RUNNING)) => [](InRunWait => <>(pc = "done"))

\* wait_until_not_running returned after the hub had reported RUNNING and
\* then IDLE during the wait.
C18_Witness ==
    /\ op = "wait_until_not_running" /\ pc = "done" /\ RanSince
    /\ state = IDLE

\* C19: the disconnected callback leaves the status UNKNOWN, and a wait for
\* the checksum that was suspended when the callback ran (the status is
\* UNKNOWN during the wait) leaves it UNKNOWN when it resumes.
C19_UnknownAfterDisconnect ==
    [][/\ (connected /\ ~connected' /\ pc' = pc) => state' = UNKNOWN
       /\ (/\ ~connected /\ pc = "wait_for_checksum" /\ state = UNKNOWN
           /\ Len(data) \in 1..MaxMessage)
          => state' = UNKNOWN]_vars

\* C20: whenever update_data_buffer has ended, normally or with an
\* exception, buf holds no CR LF: every complete line was cut and processed.
C20_NoLineLeftInBuf == ~Contains(buf, CRLF)

====
